---- MODULE Spec2Model ----
(***************************************************************************)
(* Model of the company_mgmt Django application: the three tables Company, *)
(* Unit and Employee (management/models.py), the three ModelForms          *)
(* (management/forms.py) and the list / edit views (management/views.py).  *)
(*                                                                         *)
(* Text values are sequences of one-character strings.  Every request is   *)
(* served by one client slot; an edit POST takes three steps (dispatch and *)
(* lookup, form.is_valid(), form.save()), and steps of different requests  *)
(* interleave, as they do between the workers of a Django deployment.      *)
(***************************************************************************)
EXTENDS Integers, Sequences, FiniteSets, TLC

VARIABLES
    companies,  \* the rows of Company: identifier -> [name, address]
    units,      \* the rows of Unit: identifier -> [name, company]
    employees,  \* the rows of Employee: identifier -> [first_name, ..., unit]
    nextId,     \* per table, the identifier its sequence hands out next
    req,        \* per client, the request it is running or has last run
    started     \* the number of requests started so far

vars == <<companies, units, employees, nextId, req, started>>

(***************************************************************************)
(* Bounds of the model.                                                    *)
(***************************************************************************)
\* Largest identifier a table's sequence hands out.
MaxId == 2

\* The number of requests the clients send in one run.
MaxRequests == 2

\* The concurrent clients (browser sessions / worker threads).
Clients == {"c1", "c2"}

(***************************************************************************)
(* Program constants.                                                      *)
(***************************************************************************)
\* models.CharField(max_length=255)
NameMaxLength == 255
\* models.EmailField() : max_length defaults to 254
EmailMaxLength == 254
\* pk=None, the default of the edit views' pk parameter (the ".../new/" routes)
None == -1

\* Error codes of the form layer, under the names the specification uses.
RequiredFieldMissing == "required"
FieldTooLong == "max_length"
InvalidFormat == "invalid"
DuplicateValue == "unique"
ReferenceNotFound == "invalid_choice"

Entities == {"Company", "Unit", "Employee"}

(***************************************************************************)
(* Text helpers.                                                           *)
(***************************************************************************)
\* The string made of n copies of the character c.
Rep(c, n) == [i \in 1..n |-> c]

IsSpace(c) == c = " "

RECURSIVE lstrip(_)
lstrip(s) == IF s # <<>> /\ IsSpace(Head(s)) THEN lstrip(Tail(s)) ELSE s

RECURSIVE rstrip(_)
rstrip(s) ==
    IF s # <<>> /\ IsSpace(s[Len(s)]) THEN rstrip(SubSeq(s, 1, Len(s) - 1)) ELSE s

\* str.strip(), applied by forms.CharField.to_python (strip=True by default).
strip(s) == rstrip(lstrip(s))

Digits == {"0", "1", "2", "3", "4", "5", "6", "7", "8", "9"}

DigitVal(c) == CHOOSE n \in 0..9 : ToString(n) = c

IsNumber(s) == s # <<>> /\ \A i \in 1..Len(s) : s[i] \in Digits

RECURSIVE ParseInt(_)
\* int(s) for a string of decimal digits.
ParseInt(s) ==
    IF s = <<>> THEN 0
    ELSE 10 * ParseInt(SubSeq(s, 1, Len(s) - 1)) + DigitVal(s[Len(s)])

\* The positions of the character c in s.
Positions(s, c) == {i \in 1..Len(s) : s[i] = c}

(***************************************************************************)
(* django.core.validators.EmailValidator, on the alphabet of the model:    *)
(* letters, digits, ".", "@" and the space.  The value is split at its     *)
(* last "@"; the user part is a dot-atom, the domain a sequence of         *)
(* dot-separated labels ending in a top-level label of two letters or more.*)
(***************************************************************************)
Letters ==
    {"a", "b", "c", "d", "e", "f", "g", "h", "i", "j", "k", "l", "m", "n", "o",
     "p", "q", "r", "s", "t", "u", "v", "w", "x", "y", "z"}

AtomChars == Letters \cup Digits

\* Non-empty runs of characters of ok, separated by single dots.
DotAtom(s, ok) ==
    /\ s # <<>>
    /\ \A i \in 1..Len(s) : s[i] \in ok \cup {"."}
    /\ s[1] # "." /\ s[Len(s)] # "."
    /\ \A i \in 1..(Len(s) - 1) : ~(s[i] = "." /\ s[i + 1] = ".")

ValidEmail(s) ==
    /\ Positions(s, "@") # {}
    /\ LET at == CHOOSE i \in Positions(s, "@") : \A j \in Positions(s, "@") : j <= i
           user == SubSeq(s, 1, at - 1)
           domain == SubSeq(s, at + 1, Len(s))
           dots == Positions(domain, ".")
       IN  /\ DotAtom(user, AtomChars)
           /\ DotAtom(domain, AtomChars)
           /\ dots # {}
           /\ LET last == CHOOSE i \in dots : \A j \in dots : j <= i
                  tld == SubSeq(domain, last + 1, Len(domain))
              IN  Len(tld) >= 2 /\ \A i \in 1..Len(tld) : tld[i] \in Letters

(***************************************************************************)
(* The form layer: django.forms fields generated for the ModelForms of     *)
(* management/forms.py from the model fields of management/models.py.      *)
(***************************************************************************)
\* The fields of each form, in declaration order (Meta.fields).
Fields(e) ==
    CASE e = "Company" -> <<"name", "address">>
      [] e = "Unit" -> <<"name", "company">>
      [] e = "Employee" -> <<"first_name", "last_name", "email", "unit">>
      [] OTHER -> <<>>

FieldSet(e) == {Fields(e)[i] : i \in 1..Len(Fields(e))}

\* The empty mapping (no rows, no data, no errors).
Empty == [x \in {} |-> x]

\* The stored rows of an entity type: a function from identifier to row.
Table(e) ==
    CASE e = "Company" -> companies
      [] e = "Unit" -> units
      [] e = "Employee" -> employees
      [] OTHER -> Empty

\* Widget.value_from_datadict followed by to_python's empty value: a field
\* missing from the POST data is bound like an empty one.
Submitted(data, f) == IF f \in DOMAIN data THEN data[f] ELSE <<>>

\* (Mutant of CharFieldErrors: an empty value is never refused.)
CharFieldErrorsNeverRequired(raw, required, max) ==
    IF max # None /\ Len(strip(raw)) > max THEN {FieldTooLong} ELSE {}

\* forms.CharField.clean: strip, required check, then MaxLengthValidator
\* (max = None: no limit).  Returns the set of error codes.
CharFieldErrors(raw, required, max) ==
    LET v == strip(raw)
    IN  IF v = <<>> THEN (IF required THEN {RequiredFieldMissing} ELSE {})
        ELSE IF max # None /\ Len(v) > max THEN {FieldTooLong} ELSE {}

\* forms.EmailField.clean: a CharField plus the EmailValidator; every
\* failing validator reports.
EmailFieldErrors(raw) ==
    LET v == strip(raw)
    IN  IF v = <<>> THEN {RequiredFieldMissing}
        ELSE (IF Len(v) > EmailMaxLength THEN {FieldTooLong} ELSE {})
             \cup (IF ValidEmail(v) THEN {} ELSE {InvalidFormat})

\* (Mutant of ModelChoiceFieldErrors: the submitted identifier is not looked up.)
ModelChoiceFieldErrorsNoLookup(raw, parents) ==
    IF raw = <<>> THEN {RequiredFieldMissing} ELSE {}

\* forms.ModelChoiceField.clean over the rows of the parent table.
ModelChoiceFieldErrors(raw, parents) ==
    IF raw = <<>> THEN {RequiredFieldMissing}
    ELSE IF IsNumber(raw) /\ ParseInt(raw) \in DOMAIN parents THEN {}
    ELSE {ReferenceNotFound}

\* Field.clean of field f of the form of entity e.
FieldErrors(e, f, raw) ==
    CASE e = "Company" /\ f = "name" -> CharFieldErrors(raw, TRUE, NameMaxLength)
      [] e = "Company" /\ f = "address" -> CharFieldErrors(raw, FALSE, None)
      [] e = "Unit" /\ f = "name" -> CharFieldErrors(raw, TRUE, NameMaxLength)
      [] e = "Unit" /\ f = "company" -> ModelChoiceFieldErrors(raw, companies)
      [] e = "Employee" /\ f \in {"first_name", "last_name"} ->
            CharFieldErrors(raw, TRUE, NameMaxLength)
      [] e = "Employee" /\ f = "email" -> EmailFieldErrors(raw)
      [] e = "Employee" /\ f = "unit" -> ModelChoiceFieldErrors(raw, units)

\* (Mutant of UniqueField: Unit.name is declared unique as well.)
UniqueFieldWithUnitName(e) ==
    CASE e = "Company" -> {"name"}
      [] e = "Unit" -> {"name"}
      [] e = "Employee" -> {"email"}
      [] OTHER -> {}

\* The field with a unique=True column, if the model has one.
UniqueField(e) ==
    CASE e = "Company" -> {"name"}
      [] e = "Unit" -> {}
      [] e = "Employee" -> {"email"}
      [] OTHER -> {}

\* The foreign-key field, if the model has one.
ReferenceField(e) ==
    CASE e = "Company" -> {}
      [] e = "Unit" -> {"company"}
      [] e = "Employee" -> {"unit"}
      [] OTHER -> {}

\* The value bound to field f after cleaning: stripped text.  (A reference
\* is kept as its digits and resolved by Row.)
Cleaned(e, f, raw) == IF f \in ReferenceField(e) THEN raw ELSE strip(raw)

\* (Mutant of UniqueErrors: the pre-check is left out.)
UniqueErrorsOff(e, f, raw, instance) == {}

\* (Mutant of UniqueErrors: the instance being edited is not excluded.)
UniqueErrorsNoExclusion(e, f, raw, instance) ==
    IF /\ f \in UniqueField(e)
       /\ \E q \in DOMAIN Table(e) : Table(e)[q][f] = strip(raw)
    THEN {DuplicateValue}
    ELSE {}

\* Model.validate_unique through the form's _post_clean: a field that
\* passed its own validation is looked up among the stored rows, the
\* instance being edited excluded (instance = None for a new one).
UniqueErrors(e, f, raw, instance) ==
    IF /\ f \in UniqueField(e)
       /\ FieldErrors(e, f, raw) = {}
       /\ \E q \in DOMAIN Table(e) :
            q # instance /\ Table(e)[q][f] = Cleaned(e, f, raw)
    THEN {DuplicateValue}
    ELSE {}

\* (Mutant of FormErrors: cleaning stops at the first field that fails.)
FormErrorsFirstOnly(e, data, instance) ==
    LET all == [f \in FieldSet(e) |->
                  FieldErrors(e, f, Submitted(data, f))
                      \cup UniqueErrors(e, f, Submitted(data, f), instance)]
        failing == {i \in 1..Len(Fields(e)) : all[Fields(e)[i]] # {}}
    IN  [f \in FieldSet(e) |->
            IF \E i \in failing : Fields(e)[i] = f /\ \A j \in failing : i <= j
            THEN all[f]
            ELSE {}]

\* form.errors after full_clean(): field -> set of error codes.
FormErrors(e, data, instance) ==
    [f \in FieldSet(e) |->
        FieldErrors(e, f, Submitted(data, f))
            \cup UniqueErrors(e, f, Submitted(data, f), instance)]

\* form.cleaned_data, of a form without the fields that failed.
CleanedData(e, data) ==
    [f \in FieldSet(e) |-> Cleaned(e, f, Submitted(data, f))]

NoErrors(errors) == \A f \in DOMAIN errors : errors[f] = {}

\* (Mutant of is_valid: the view saves whatever was submitted.)
is_valid_always(errors) == TRUE

\* form.is_valid()
is_valid(errors) == NoErrors(errors)

\* construct_instance: the row the form writes, references resolved to ids.
Row(e, cleaned) ==
    [f \in FieldSet(e) |->
        IF f \in ReferenceField(e) THEN ParseInt(cleaned[f]) ELSE cleaned[f]]

(***************************************************************************)
(* The storage layer: the tables management/models.py declares, with the   *)
(* UNIQUE and FOREIGN KEY constraints of their columns.                    *)
(***************************************************************************)
\* The table the foreign key of entity e points into.
ParentTable(e) ==
    CASE e = "Unit" -> companies
      [] e = "Employee" -> units
      [] OTHER -> Empty

\* (Mutant of UniqueViolation: the columns are not declared unique.)
UniqueViolationOff(e, id, row) == FALSE

\* unique=True: another row already holds the row's value of the unique column.
UniqueViolation(e, id, row) ==
    \E f \in UniqueField(e) :
        \E q \in DOMAIN Table(e) : q # id /\ Table(e)[q][f] = row[f]

\* (Mutant of ForeignKeyViolation: the columns carry no constraint.)
ForeignKeyViolationOff(e, row) == FALSE

\* ForeignKey: the row points at no stored parent.
ForeignKeyViolation(e, row) ==
    \E f \in ReferenceField(e) : row[f] \notin DOMAIN ParentTable(e)

\* The database raises IntegrityError on writing row under identifier id.
IntegrityError(e, id, row) ==
    UniqueViolation(e, id, row) \/ ForeignKeyViolation(e, row)

\* The table t with row stored under id (INSERT, or UPDATE of every column).
Put(t, id, row) == [k \in DOMAIN t \cup {id} |-> IF k = id THEN row ELSE t[k]]

\* The table t without the rows whose identifier is in ids.
Remove(t, ids) == [k \in DOMAIN t \ ids |-> t[k]]

\* (Mutant of Write: the row is written over every stored row of the table.)
WriteEveryRow(e, id, row) ==
    LET all(t) == [k \in DOMAIN t \cup {id} |-> row]
    IN  /\ companies' = IF e = "Company" THEN all(companies) ELSE companies
        /\ units' = IF e = "Unit" THEN all(units) ELSE units
        /\ employees' = IF e = "Employee" THEN all(employees) ELSE employees

\* One committed write of row under id into the table of e; the other two
\* tables are untouched.
Write(e, id, row) ==
    /\ companies' = IF e = "Company" THEN Put(companies, id, row) ELSE companies
    /\ units' = IF e = "Unit" THEN Put(units, id, row) ELSE units
    /\ employees' = IF e = "Employee" THEN Put(employees, id, row) ELSE employees

\* The units of the companies cs, and the employees of the units us.
UnitsOf(cs) == {u \in DOMAIN units : units[u].company \in cs}

EmployeesOf(us) == {m \in DOMAIN employees : employees[m].unit \in us}

(***************************************************************************)
(* Requests.  req[r] is the request client r is running or has last run.   *)
(***************************************************************************)
NoWrite == [op |-> "none", id |-> None]

Idle ==
    [pc |-> "idle", view |-> "none", entity |-> "none", method |-> "GET",
     pk |-> None, instance |-> None, data |-> Empty, cleaned |-> Empty,
     errors |-> Empty, status |-> 0, wrote |-> NoWrite, body |-> Empty,
     location |-> "none"]

Running(r) == req[r].pc \in {"bound", "valid"}

\* A client can start a request when it is running none.  The clients are
\* interchangeable, so a request is given to the first one unless that one
\* is busy: "c2" serves only requests that overlap one of "c1".
Free(r) ==
    /\ ~Running(r)
    /\ started < MaxRequests
    /\ r = "c2" => Running("c1")

\* The requests explored for the overlapping client are submits that can
\* write; reads and the submits with invalid data are explored for "c1",
\* before, between and after the steps of an overlapping submit.
Reads(r) == r = "c1"

\* The response of a request in progress.
Done(q, status) == [q EXCEPT !.pc = "done", !.status = status]

Respond(r, q, status) == req' = [req EXCEPT ![r] = Done(q, status)]

\* Client r takes the new request q.
Start(r, q) == req' = [req EXCEPT ![r] = q]

\* The identifiers the "<int:pk>" routes are tried with, and pk=None for the
\* ".../new/" routes.
PkInputs == {None} \cup (0..MaxId)

Str1(c) == <<c>>

EmailA == <<"a", "@", "b", ".", "c", "o">>

EmailB == <<"c", "@", "b", ".", "c", "o">>

\* [name, address] as POST data.
CompanyData(name, address) ==
    [f \in {"name", "address"} |-> IF f = "name" THEN name ELSE address]

UnitData(name, company) ==
    [f \in {"name", "company"} |-> IF f = "name" THEN name ELSE company]

EmployeeData(first_name, last_name, email, unit) ==
    [f \in {"first_name", "last_name", "email", "unit"} |->
        CASE f = "first_name" -> first_name
          [] f = "last_name" -> last_name
          [] f = "email" -> email
          [] f = "unit" -> unit]

\* Names at the limit of max_length=255: of exactly 255 characters, of 256,
\* and of 255 characters followed by a space (256 submitted characters).
MaxName == Rep("a", NameMaxLength)

TooLongName == MaxName \o <<"a">>

PaddedMaxName == MaxName \o <<" ">>

\* Submitted text for a reference: the identifiers that can be stored and
\* one that never is.
ReferenceInputs == {Str1(ToString(i)) : i \in 1..MaxId} \cup {Str1("9")}

\* The POST bodies submitted for each form.
DataInputs(e) ==
    CASE e = "Company" ->
            {CompanyData(n, <<>>) : n \in {<<>>, Str1("a"), Str1("b"), <<" ", "a">>}}
            \cup {CompanyData(Str1("a"), Str1("x"))}
            \cup {[f \in {"address"} |-> Str1("x")]}
            \cup {CompanyData(n, <<>>) : n \in {MaxName, TooLongName, PaddedMaxName}}
      [] e = "Unit" ->
            {UnitData(Str1("a"), c) : c \in ReferenceInputs}
            \cup {UnitData(<<>>, Str1("1")), UnitData(Str1(" "), Str1("1")),
                  UnitData(Str1("a"), <<>>),
                  [f \in {"name"} |-> Str1("a")],
                  UnitData(<<>>, Str1("9")),
                  UnitData(<<"a", " ">>, Str1("1")),
                  UnitData(MaxName, Str1("1")),
                  UnitData(TooLongName, Str1("1"))}
      [] e = "Employee" ->
            {EmployeeData(Str1("a"), Str1("a"), EmailA, u) : u \in ReferenceInputs}
            \cup {EmployeeData(Str1("a"), Str1("a"), EmailB, Str1("1")),
                  EmployeeData(<<>>, Str1("a"), EmailA, Str1("1")),
                  EmployeeData(Str1("a"), <<>>, EmailA, Str1("1")),
                  EmployeeData(Str1("a"), Str1("a"), <<>>, Str1("1")),
                  EmployeeData(Str1("a"), Str1("a"), <<"a", "@", "b">>, Str1("1")),
                  EmployeeData(Str1("a"), Str1("a"), EmailA, <<>>),
                  EmployeeData(<<>>, <<>>, <<"a", "@", "b">>, Str1("9")),
                  EmployeeData(MaxName, MaxName, EmailB, Str1("1")),
                  EmployeeData(TooLongName, Str1("a"), EmailB, Str1("1")),
                  EmployeeData(Str1("a"), TooLongName, EmailB, Str1("1"))}

\* The POST bodies of the overlapping client: well-formed submits.
OverlapInputs(e) ==
    CASE e = "Company" -> {CompanyData(n, <<>>) : n \in {Str1("a"), Str1("b")}}
      [] e = "Unit" -> {UnitData(Str1("a"), Str1("1"))}
      [] e = "Employee" ->
            {EmployeeData(Str1("a"), Str1("a"), m, Str1("1")) : m \in {EmailA, EmailB}}

PostInputs(r, e) == IF Reads(r) THEN DataInputs(e) ELSE OverlapInputs(e)

(***************************************************************************)
(* The views of management/views.py.                                       *)
(***************************************************************************)
\* Python truthiness of the pk argument: None and 0 are falsy.
Truthy(pk) == pk # None /\ pk # 0

\* X_list: fetch every row of the table and render it.
list_view(r, e, view) ==
    /\ Free(r) /\ Reads(r)
    /\ Start(r, Done([Idle EXCEPT !.view = view, !.entity = e, !.body = Table(e)], 200))
    /\ started' = started + 1
    /\ UNCHANGED <<companies, units, employees, nextId>>

\* The request record of an edit view called with pk.
EditRequest(e, view, method, pk) ==
    [Idle EXCEPT !.view = view, !.entity = e, !.method = method, !.pk = pk]

\* "get_object_or_404(X, pk=pk) if pk else None": the lookup is made when
\* pk is truthy, and fails when no row has that identifier.
NotFound(e, pk) == Truthy(pk) /\ pk \notin DOMAIN Table(e)

Instance(pk) == IF Truthy(pk) THEN pk ELSE None

\* X_edit, get_object_or_404 raising Http404 (whatever the method).
edit_not_found(r, e, view, method, pk) ==
    /\ Free(r)
    /\ method = "GET" => Reads(r)
    /\ NotFound(e, pk)
    /\ Start(r, Done(EditRequest(e, view, method, pk), 404))
    /\ UNCHANGED <<companies, units, employees, nextId>>
    /\ started' = started + 1

\* X_edit on a GET: the unbound form of the instance is rendered.
edit_get(r, e, view, pk) ==
    /\ Free(r) /\ Reads(r)
    /\ ~NotFound(e, pk)
    /\ Start(r, Done([EditRequest(e, view, "GET", pk) EXCEPT
                        !.instance = Instance(pk),
                        !.body = IF Instance(pk) = None THEN Empty
                                 ELSE Table(e)[Instance(pk)]], 200))
    /\ UNCHANGED <<companies, units, employees, nextId>>
    /\ started' = started + 1

\* X_edit on a POST: the form is bound to the POST data and the instance.
edit_post(r, e, view, pk, data) ==
    /\ Free(r)
    /\ ~NotFound(e, pk)
    /\ Instance(pk) = None => nextId[e] <= MaxId
    /\ Start(r, [EditRequest(e, view, "POST", pk) EXCEPT
                   !.pc = "bound", !.instance = Instance(pk), !.data = data])
    /\ UNCHANGED <<companies, units, employees, nextId>>
    /\ started' = started + 1

\* X_edit, "if form.is_valid():" and, when it is not, the render of the
\* bound form with its errors.
edit_is_valid(r, e) ==
    /\ req[r].pc = "bound" /\ req[r].entity = e
    /\ LET errors == FormErrors(e, req[r].data, req[r].instance)
       IN  IF is_valid(errors)
           THEN req' = [req EXCEPT ![r].pc = "valid", ![r].errors = errors,
                                   ![r].cleaned = CleanedData(e, req[r].data)]
           ELSE Respond(r, [req[r] EXCEPT !.errors = errors], 200)
    /\ UNCHANGED <<companies, units, employees, nextId, started>>

\* redirect('company_list'), redirect('unit_list'), redirect('employee_list')
ListView(e) ==
    CASE e = "Company" -> "company_list"
      [] e = "Unit" -> "unit_list"
      [] e = "Employee" -> "employee_list"

\* The row form.save() writes for the request of r, and the identifier it
\* writes it under.
SaveRow(r) == Row(req[r].entity, req[r].cleaned)

SaveId(r) == IF req[r].instance = None THEN nextId[req[r].entity] ELSE req[r].instance

\* X_edit, "form.save()" and "return redirect(...)".  Model.save() of a new
\* instance INSERTs under the next identifier; of a loaded instance it
\* UPDATEs the row and, when no row matched, INSERTs it under its old
\* identifier.  An IntegrityError of the database is not caught by the view:
\* the request ends as a server error.
edit_save(r, e) ==
    /\ req[r].pc = "valid" /\ req[r].entity = e
    /\ LET row == SaveRow(r)
           adding == req[r].instance = None
           id == SaveId(r)
           op == IF id \in DOMAIN Table(e) THEN "update" ELSE "insert"
       IN  IF IntegrityError(e, id, row)
           THEN /\ Respond(r, req[r], 500)
                /\ UNCHANGED <<companies, units, employees, nextId>>
           ELSE /\ adding => nextId[e] <= MaxId
                /\ Write(e, id, row)
                /\ nextId' = IF adding THEN [nextId EXCEPT ![e] = @ + 1] ELSE nextId
                /\ Respond(r, [req[r] EXCEPT !.wrote = [op |-> op, id |-> id],
                                             !.location = ListView(e)], 302)
    /\ UNCHANGED started

company_list(r) == list_view(r, "Company", "company_list")

company_edit(r) ==
    \/ \E pk \in PkInputs, method \in {"GET", "POST"} :
         edit_not_found(r, "Company", "company_edit", method, pk)
    \/ \E pk \in PkInputs : edit_get(r, "Company", "company_edit", pk)
    \/ \E pk \in PkInputs, data \in PostInputs(r, "Company") :
         edit_post(r, "Company", "company_edit", pk, data)
    \/ edit_is_valid(r, "Company")
    \/ edit_save(r, "Company")

unit_list(r) == list_view(r, "Unit", "unit_list")

unit_edit(r) ==
    \/ \E pk \in PkInputs, method \in {"GET", "POST"} :
         edit_not_found(r, "Unit", "unit_edit", method, pk)
    \/ \E pk \in PkInputs : edit_get(r, "Unit", "unit_edit", pk)
    \/ \E pk \in PkInputs, data \in PostInputs(r, "Unit") :
         edit_post(r, "Unit", "unit_edit", pk, data)
    \/ edit_is_valid(r, "Unit")
    \/ edit_save(r, "Unit")

employee_list(r) == list_view(r, "Employee", "employee_list")

employee_edit(r) ==
    \/ \E pk \in PkInputs, method \in {"GET", "POST"} :
         edit_not_found(r, "Employee", "employee_edit", method, pk)
    \/ \E pk \in PkInputs : edit_get(r, "Employee", "employee_edit", pk)
    \/ \E pk \in PkInputs, data \in PostInputs(r, "Employee") :
         edit_post(r, "Employee", "employee_edit", pk, data)
    \/ edit_is_valid(r, "Employee")
    \/ edit_save(r, "Employee")

(***************************************************************************)
(* Deletion, which no view offers but the admin site and the ORM do:       *)
(* on_delete=CASCADE removes the rows that point at a removed row, in the  *)
(* same transaction.                                                       *)
(***************************************************************************)
\* (Mutant of delete_company: the cascade stops at the units.)
delete_company_keeps_employees(c) ==
    /\ c \in DOMAIN companies
    /\ companies' = Remove(companies, {c})
    /\ units' = Remove(units, UnitsOf({c}))
    /\ UNCHANGED <<employees, nextId, req, started>>

delete_company(c) ==
    /\ c \in DOMAIN companies
    /\ LET us == UnitsOf({c})
       IN  /\ companies' = Remove(companies, {c})
           /\ units' = Remove(units, us)
           /\ employees' = Remove(employees, EmployeesOf(us))
    /\ UNCHANGED <<nextId, req, started>>

delete_unit(u) ==
    /\ u \in DOMAIN units
    /\ units' = Remove(units, {u})
    /\ employees' = Remove(employees, EmployeesOf({u}))
    /\ UNCHANGED <<companies, nextId, req, started>>

delete_employee(m) ==
    /\ m \in DOMAIN employees
    /\ employees' = Remove(employees, {m})
    /\ UNCHANGED <<companies, units, nextId, req, started>>

(***************************************************************************)
(* The specification.                                                      *)
(***************************************************************************)
\* The database the test suites set up: one company, one unit of it and one
\* employee of that unit.
Fixture ==
    [companies |-> [k \in {1} |-> CompanyData(Str1("a"), Str1("x"))],
     units |-> [k \in {1} |-> [f \in {"name", "company"} |->
                                 IF f = "name" THEN Str1("a") ELSE 1]],
     employees |-> [k \in {1} |->
                      [f \in {"first_name", "last_name", "email", "unit"} |->
                          CASE f = "first_name" -> Str1("a")
                            [] f = "last_name" -> Str1("a")
                            [] f = "email" -> EmailA
                            [] f = "unit" -> 1]],
     nextId |-> [e \in Entities |-> 2]]

EmptyDatabase ==
    [companies |-> Empty, units |-> Empty, employees |-> Empty,
     nextId |-> [e \in Entities |-> 1]]

Init ==
    /\ \E db \in {EmptyDatabase, Fixture} :
         /\ companies = db.companies
         /\ units = db.units
         /\ employees = db.employees
         /\ nextId = db.nextId
    /\ req = [r \in Clients |-> Idle]
    /\ started = 0

Next ==
    \/ \E r \in Clients : company_list(r)
    \/ \E r \in Clients : company_edit(r)
    \/ \E r \in Clients : unit_list(r)
    \/ \E r \in Clients : unit_edit(r)
    \/ \E r \in Clients : employee_list(r)
    \/ \E r \in Clients : employee_edit(r)
    \/ \E c \in 1..MaxId : delete_company(c)
    \/ \E u \in 1..MaxId : delete_unit(u)
    \/ \E m \in 1..MaxId : delete_employee(m)

Spec == Init /\ [][Next]_vars

(***************************************************************************)
(* Properties.                                                             *)
(***************************************************************************)
\* The step is one of client r's request.
Steps(r) == req'[r] # req[r]

\* The step is form.is_valid() of r's request, form.save() of it.
Validates(r) == req[r].pc = "bound" /\ Steps(r)

Saves(r) == req[r].pc = "valid" /\ Steps(r)

DatabaseUnchanged == UNCHANGED <<companies, units, employees, nextId>>

\* The request of r ended with the bound form rendered again (200), nothing
\* written.
Rerendered(q) == q.pc = "done" /\ q.status = 200 /\ q.wrote = NoWrite

\* C1: a save that hits the storage's uniqueness constraint after the
\* pre-check passed ends as a validation failure - the form rendered again
\* (200) with DuplicateValue on the unique field - and not as a server error.
C1_LateViolationIsValidationFailure ==
    [][\A r \in Clients :
         (Saves(r) /\ UniqueViolation(req[r].entity, SaveId(r), SaveRow(r)))
            => /\ Rerendered(req'[r])
               /\ \E f \in UniqueField(req[r].entity) :
                    DuplicateValue \in req'[r].errors[f]]_vars

\* C2: in every reachable state no two stored companies have the same name
\* and no two stored employees the same email.
C2_UniqueNamesAndEmails ==
    /\ \A p, q \in DOMAIN companies :
         p # q => companies[p].name # companies[q].name
    /\ \A p, q \in DOMAIN employees :
         p # q => employees[p].email # employees[q].email

\* C2's case: two companies are stored and a third write of one of their
\* names has been refused by the storage.
C2_Witness ==
    /\ Cardinality(DOMAIN companies) = 2
    /\ \E r \in Clients :
         /\ req[r].pc = "done" /\ req[r].entity = "Company" /\ req[r].status = 500
         /\ \E q \in DOMAIN companies : companies[q].name = req[r].cleaned["name"]

\* C3: a create submit whose unique field (Company.name, Employee.email)
\* equals the value of a stored row is rejected by form.is_valid() with
\* DuplicateValue on that field; nothing is written and the stored rows are
\* unchanged.
C3_DuplicateCreateRejected ==
    [][\A r \in Clients : \A f \in UniqueField(req[r].entity) :
         (/\ Validates(r)
          /\ req[r].instance = None
          /\ \E q \in DOMAIN Table(req[r].entity) :
               Table(req[r].entity)[q][f] = Submitted(req[r].data, f))
            => /\ Rerendered(req'[r])
               /\ DuplicateValue \in req'[r].errors[f]
               /\ DatabaseUnchanged]_vars

\* C3's case: a create submit was answered with DuplicateValue on the field
\* whose value a stored row holds.
C3_Witness ==
    \E r \in Clients : \E f \in UniqueField(req[r].entity) :
        /\ Rerendered(req[r]) /\ req[r].instance = None /\ req[r].method = "POST"
        /\ DuplicateValue \in req[r].errors[f]
        /\ \E q \in DOMAIN Table(req[r].entity) :
             Table(req[r].entity)[q][f] = req[r].data[f]

\* C4: the uniqueness pre-check excludes the instance being edited.  An edit
\* submit that resubmits the stored row's own name (email) gets no
\* DuplicateValue, passes validation when no field has an error of its own,
\* and its save ends in a redirect with the row updated in place; an edit
\* submit that carries the name (email) of a different stored row is
\* rejected with DuplicateValue, nothing written.
C4_SelfExcludedFromUniqueness ==
    [][\A r \in Clients : \A f \in UniqueField(req[r].entity) :
         LET e == req[r].entity
             p == req[r].instance
             v == Submitted(req[r].data, f)
         IN  /\ (Validates(r) /\ p \in DOMAIN Table(e) /\ v = Table(e)[p][f])
                  => /\ DuplicateValue \notin req'[r].errors[f]
                     /\ (\A g \in FieldSet(e) : FieldErrors(e, g, Submitted(req[r].data, g)) = {})
                          => req'[r].pc = "valid"
             /\ (Validates(r) /\ p # None
                   /\ \E q \in DOMAIN Table(e) : q # p /\ v = Table(e)[q][f])
                  => /\ Rerendered(req'[r])
                     /\ DuplicateValue \in req'[r].errors[f]
                     /\ DatabaseUnchanged
             /\ (Saves(r) /\ p \in DOMAIN Table(e) /\ SaveRow(r)[f] = Table(e)[p][f]
                   /\ ~ForeignKeyViolation(e, SaveRow(r)))
                  => /\ req'[r].pc = "done" /\ req'[r].status = 302
                     /\ req'[r].wrote = [op |-> "update", id |-> p]
                     /\ Table(e)'[p] = SaveRow(r)
                     /\ DOMAIN Table(e)' = DOMAIN Table(e)]_vars

\* C4's case: an edit that resubmitted the row's own unique value was saved
\* while another row is stored beside it.
C4_Witness ==
    \E r \in Clients : \E f \in UniqueField(req[r].entity) :
        LET e == req[r].entity
        IN  /\ req[r].pc = "done" /\ req[r].status = 302
            /\ req[r].wrote.op = "update"
            /\ Cardinality(DOMAIN Table(e)) = 2
            /\ req[r].wrote.id \in DOMAIN Table(e)
            /\ Table(e)[req[r].wrote.id][f] = req[r].data[f]

\* C5: a submit that fails validation is answered 200 with the bound form
\* and its field errors, and writes nothing: the step leaves every table as
\* it was, and only a request whose form had no error ever writes.
C5_InvalidSubmitPersistsNothing ==
    [][\A r \in Clients :
         /\ (Validates(r) /\ req'[r].pc = "done")
              => /\ Rerendered(req'[r])
                 /\ \E f \in DOMAIN req'[r].errors : req'[r].errors[f] # {}
                 /\ req'[r].data = req[r].data
                 /\ DatabaseUnchanged
         /\ (Validates(r) /\ req'[r].pc # "done")
              => /\ req'[r].pc = "valid"
                 /\ FormErrors(req[r].entity, req[r].data, req[r].instance)
                      = [f \in FieldSet(req[r].entity) |-> {}]
         /\ (Steps(r) /\ req'[r].wrote # NoWrite) => NoErrors(req'[r].errors)]_vars

\* C5's case: an edit submit of a stored row failed validation and the row
\* is stored as before.
C5_Witness ==
    \E r \in Clients :
        /\ Rerendered(req[r]) /\ req[r].method = "POST"
        /\ \E f \in DOMAIN req[r].errors : req[r].errors[f] # {}
        /\ req[r].instance \in DOMAIN Table(req[r].entity)

EditViews == {"company_edit", "unit_edit", "employee_edit"}

\* C6: an edit request (read or submit) whose route carries an identifier
\* that names no stored instance - 0 included - is answered 404, is not
\* served with a new empty instance, and changes nothing.
C6_MissingIdentifierIsNotFound ==
    [][\A r \in Clients :
         (/\ Steps(r) /\ ~Running(r)
          /\ req'[r].view \in EditViews
          /\ req'[r].pk # None
          /\ req'[r].pk \notin DOMAIN Table(req'[r].entity))
            => /\ req'[r].pc = "done" /\ req'[r].status = 404
               /\ DatabaseUnchanged]_vars

\* C7: deleting a company removes exactly that company, the units that
\* reference it and the employees that reference those units; deleting a
\* unit removes exactly that unit and its employees; every other row stays
\* as it was.
C7_DeleteCascades ==
    [][/\ \A c \in DOMAIN companies \ DOMAIN companies' :
            /\ companies' = Remove(companies, {c})
            /\ units' = Remove(units, UnitsOf({c}))
            /\ employees' = Remove(employees, EmployeesOf(UnitsOf({c})))
       /\ \A u \in DOMAIN units \ DOMAIN units' :
            units[u].company \in DOMAIN companies'
               => /\ companies' = companies
                  /\ units' = Remove(units, {u})
                  /\ employees' = Remove(employees, EmployeesOf({u}))]_vars

\* C7's case: company 1 of the test database was deleted, its unit and its
\* employee went with it, and company 2 and its unit are still stored.
C7_Witness ==
    /\ DOMAIN companies = {2}
    /\ DOMAIN units = {2} /\ units[2].company = 2
    /\ employees = Empty /\ nextId["Employee"] = 2

\* C8: in every reachable state every stored unit references a stored
\* company and every stored employee references a stored unit.
C8_NoDanglingReference ==
    /\ \A u \in DOMAIN units : units[u].company \in DOMAIN companies
    /\ \A m \in DOMAIN employees : employees[m].unit \in DOMAIN units

\* C8's case: a row was validated, its parent was deleted before the save,
\* and the storage refused the write.
C8_Witness ==
    \E r \in Clients :
        /\ req[r].pc = "done" /\ req[r].status = 500
        /\ ForeignKeyViolation(req[r].entity, Row(req[r].entity, req[r].cleaned))

\* C9: a Unit submit whose company, or an Employee submit whose unit, names
\* an identifier with no stored row is rejected with ReferenceNotFound on
\* that field and writes nothing; a reference to a stored row raises no
\* error on the field, and the save of an Employee edit that moves the
\* employee to another stored unit ends in a redirect with the stored
\* employee referencing the new unit.
C9_ReferenceMustResolve ==
    [][\A r \in Clients : \A f \in ReferenceField(req[r].entity) :
         LET e == req[r].entity
             raw == Submitted(req[r].data, f)
             p == req[r].instance
         IN  /\ (Validates(r) /\ IsNumber(raw)
                   /\ ParseInt(raw) \notin DOMAIN ParentTable(e))
                  => /\ Rerendered(req'[r])
                     /\ req'[r].errors[f] = {ReferenceNotFound}
                     /\ DatabaseUnchanged
             /\ (Validates(r) /\ IsNumber(raw) /\ ParseInt(raw) \in DOMAIN ParentTable(e))
                  => req'[r].errors[f] = {}
             /\ (/\ Saves(r) /\ e = "Employee" /\ p \in DOMAIN employees
                 /\ SaveRow(r)[f] \in DOMAIN units
                 /\ SaveRow(r)[f] # employees[p][f]
                 /\ ~UniqueViolation(e, p, SaveRow(r)))
                  => /\ req'[r].pc = "done" /\ req'[r].status = 302
                     /\ employees'[p][f] = SaveRow(r)[f]
                     /\ DOMAIN employees' = DOMAIN employees]_vars

\* C9's case: the employee of the test database was moved to a second unit.
C9_Witness ==
    \E r \in Clients :
        /\ req[r].pc = "done" /\ req[r].status = 302 /\ req[r].entity = "Employee"
        /\ req[r].wrote = [op |-> "update", id |-> 1]
        /\ 1 \in DOMAIN employees /\ employees[1].unit = 2 /\ 2 \in DOMAIN units

\* The fields C10 names as required: every form field but Company.address.
RequiredFields(e) == FieldSet(e) \ {"address"}

\* The value holds no text: it is empty or made of spaces only.
Blank(v) == \A i \in 1..Len(v) : v[i] = " "

\* C10: a submit with a required field empty or missing is rendered again,
\* nothing written, with exactly RequiredFieldMissing on that field;
\* RequiredFieldMissing is reported on no field that holds text, and never
\* on the optional Company.address.
C10_RequiredFieldMissing ==
    [][\A r \in Clients :
         LET e == req[r].entity
         IN  Validates(r) =>
               /\ \A f \in RequiredFields(e) :
                    Submitted(req[r].data, f) = <<>>
                       => /\ Rerendered(req'[r])
                          /\ req'[r].errors[f] = {RequiredFieldMissing}
                          /\ DatabaseUnchanged
               /\ \A g \in FieldSet(e) :
                    RequiredFieldMissing \in req'[r].errors[g]
                       => g \in RequiredFields(e) /\ Blank(Submitted(req[r].data, g))]_vars

\* C10's case: a submit with one required field empty was answered with
\* RequiredFieldMissing on that field alone.
C10_Witness ==
    \E r \in Clients : \E f \in RequiredFields(req[r].entity) :
        /\ Rerendered(req[r]) /\ req[r].method = "POST"
        /\ Submitted(req[r].data, f) = <<>>
        /\ req[r].errors[f] = {RequiredFieldMissing}
        /\ \A g \in FieldSet(req[r].entity) \ {f} : req[r].errors[g] = {}
\* The text fields declared with max_length=255.
LimitedFields(e) == FieldSet(e) \cap {"name", "first_name", "last_name"}

\* C11: for every text field with a declared maximum of 255 characters, a
\* submitted value of exactly 255 characters gets no FieldTooLong and a
\* successful save stores it in full; a submitted value of 256 characters
\* is rendered again with FieldTooLong on the field, and nothing is written.
C11_LengthBoundary ==
    [][\A r \in Clients : \A f \in LimitedFields(req[r].entity) :
         LET e == req[r].entity
             v == Submitted(req[r].data, f)
         IN  /\ (Validates(r) /\ Len(v) = NameMaxLength)
                  => FieldTooLong \notin req'[r].errors[f]
             /\ (Validates(r) /\ Len(v) = NameMaxLength + 1)
                  => /\ Rerendered(req'[r])
                     /\ FieldTooLong \in req'[r].errors[f]
                     /\ DatabaseUnchanged
             /\ (Saves(r) /\ req'[r].status = 302 /\ Len(v) = NameMaxLength)
                  => Table(e)'[req'[r].wrote.id][f] = v]_vars

\* The submitted value raw breaks a rule of field f of the form of e: a
\* required field without text, a name longer than 255 characters, an email
\* that is no email address, a reference to no stored parent, or the unique
\* value of a stored row other than the one being edited.
Violates(e, f, raw, instance) ==
    \/ f \in RequiredFields(e) /\ Blank(raw)
    \/ f \in LimitedFields(e) /\ Len(strip(raw)) > NameMaxLength
    \/ f = "email" /\ ~ValidEmail(strip(raw))
    \/ f \in ReferenceField(e)
         /\ ~(IsNumber(raw) /\ ParseInt(raw) \in DOMAIN ParentTable(e))
    \/ f \in UniqueField(e)
         /\ \E q \in DOMAIN Table(e) : q # instance /\ Table(e)[q][f] = strip(raw)

\* C12: form.is_valid() reports every violated field in the one response:
\* each field whose submitted value breaks a rule has an error in
\* form.errors, whatever the other fields do; and a validation that fails
\* is answered with at least one error, every error under a field of the
\* form.
C12_AllViolatedFieldsReported ==
    [][\A r \in Clients :
         LET e == req[r].entity
         IN  Validates(r) =>
               /\ \A f \in FieldSet(e) :
                    Violates(e, f, Submitted(req[r].data, f), req[r].instance)
                       => /\ req'[r].errors[f] # {}
                          /\ Rerendered(req'[r])
               /\ req'[r].pc = "done"
                    => /\ DOMAIN req'[r].errors = FieldSet(e)
                       /\ \E f \in FieldSet(e) : req'[r].errors[f] # {}]_vars

\* C12's case: one response carries errors of three kinds on four fields.
C12_Witness ==
    \E r \in Clients :
        /\ Rerendered(req[r]) /\ req[r].entity = "Employee" /\ req[r].method = "POST"
        /\ req[r].errors["first_name"] = {RequiredFieldMissing}
        /\ req[r].errors["last_name"] = {RequiredFieldMissing}
        /\ req[r].errors["email"] = {InvalidFormat}
        /\ req[r].errors["unit"] = {ReferenceNotFound}

\* The row of entity e that holds the values of data as they were submitted:
\* the text character for character, a reference as the identifier it names.
SubmittedRow(e, data) ==
    [f \in FieldSet(e) |->
        IF f \in ReferenceField(e) THEN ParseInt(Submitted(data, f))
        ELSE Submitted(data, f)]

\* C13: a submit that passed form.is_valid() ends with the submitted values
\* stored and a redirect (302) to the list view of its entity type.  Without
\* an identifier in the route exactly one row is inserted, under an
\* identifier no stored row had; with an identifier the row of that
\* identifier is overwritten and the table keeps its identifiers.
C13_ValidSubmitPersistsAndRedirects ==
    [][\A r \in Clients :
         LET e == req[r].entity
             row == SubmittedRow(e, req[r].data)
         IN  Saves(r) =>
               /\ req'[r].pc = "done" /\ req'[r].status = 302
               /\ req'[r].location = ListView(e)
               /\ req[r].pk = None
                    => \E id \in (DOMAIN Table(e)' \ DOMAIN Table(e)) :
                         Table(e)' = Put(Table(e), id, row)
               /\ req[r].pk # None
                    => /\ req[r].pk \in DOMAIN Table(e)
                       /\ Table(e)' = Put(Table(e), req[r].pk, row)
                       /\ DOMAIN Table(e)' = DOMAIN Table(e)]_vars

\* The submit of r carries a row that can be stored: its reference, if it
\* has one, is a number.
WellFormed(r) ==
    \A f \in ReferenceField(req[r].entity) : IsNumber(Submitted(req[r].data, f))

\* The row the submit of r asks to store.
RequestedRow(r) == Row(req[r].entity, CleanedData(req[r].entity, req[r].data))

\* The submit of r repeats a successful edit: the row it edits is stored
\* with exactly the values the submit carries.
RepeatsEdit(r) ==
    /\ WellFormed(r)
    /\ req[r].instance \in DOMAIN Table(req[r].entity)
    /\ Table(req[r].entity)[req[r].instance] = RequestedRow(r)

\* The submit of r repeats a successful create: it is bound to a new
\* instance and a row with exactly its values is stored already.
RepeatsCreate(r) ==
    /\ WellFormed(r)
    /\ req[r].instance = None
    /\ \E q \in DOMAIN Table(req[r].entity) : Table(req[r].entity)[q] = RequestedRow(r)

\* A repeated edit submit passes validation, and its save is answered with
\* the redirect and leaves the database exactly as it was.
RepeatedEditIsSafe(r) ==
    /\ (Validates(r) /\ RepeatsEdit(r)) => req'[r].pc = "valid"
    /\ (Saves(r) /\ RepeatsEdit(r))
         => /\ req'[r].pc = "done" /\ req'[r].status = 302
            /\ DatabaseUnchanged

\* A repeated create submit passes validation, and its save is answered
\* with the redirect and adds a second row, under a new identifier, beside
\* the stored ones.
RepeatedCreateAddsRow(r) ==
    /\ (Validates(r) /\ RepeatsCreate(r)) => req'[r].pc = "valid"
    /\ (Saves(r) /\ RepeatsCreate(r))
         => /\ req'[r].pc = "done" /\ req'[r].status = 302
            /\ \E id \in (DOMAIN Table(req[r].entity)' \ DOMAIN Table(req[r].entity)) :
                 Table(req[r].entity)' = Put(Table(req[r].entity), id, RequestedRow(r))

\* C14 as stated: for every entity type, a repeated edit submit leaves the
\* stored state as after the first one, and a repeated create submit
\* succeeds again and creates a second distinct row.
C14_RepeatedSubmitSucceeds ==
    [][\A r \in Clients : RepeatedEditIsSafe(r) /\ RepeatedCreateAddsRow(r)]_vars

\* C14 as amended: a repeated edit submit leaves the stored state as after
\* the first one, for every entity type; a repeated create submit of a Unit
\* succeeds again and creates a second distinct row; a repeated create
\* submit of a Company or an Employee is rendered again with DuplicateValue
\* on name (email), and creates nothing.
C14_RepeatedSubmit ==
    [][\A r \in Clients :
         /\ RepeatedEditIsSafe(r)
         /\ req[r].entity = "Unit" => RepeatedCreateAddsRow(r)
         /\ (Validates(r) /\ RepeatsCreate(r) /\ req[r].entity \in {"Company", "Employee"})
              => /\ Rerendered(req'[r])
                 /\ DuplicateValue
                      \in req'[r].errors[IF req[r].entity = "Company" THEN "name" ELSE "email"]
                 /\ DatabaseUnchanged]_vars

\* C14's case: the create submit of a unit was repeated, and two units with
\* the same name and company are stored.
C14_Witness ==
    \E r \in Clients :
        /\ req[r].pc = "done" /\ req[r].status = 302 /\ req[r].entity = "Unit"
        /\ req[r].wrote.op = "insert" /\ req[r].wrote.id \in DOMAIN units
        /\ \E q \in DOMAIN units : q # req[r].wrote.id /\ units[q] = units[req[r].wrote.id]

\* The text fields of the form of e: all but the reference.
TextFields(e) == FieldSet(e) \ ReferenceField(e)

\* C15: after a successful submit every text field of the written row
\* holds the submitted value character for character - nothing trimmed, cut
\* or otherwise changed - and that is what a later read of the row returns.
C15_StoredAsSubmitted ==
    [][\A r \in Clients :
         LET e == req[r].entity
         IN  /\ (Saves(r) /\ req'[r].status = 302)
                  => \A f \in TextFields(e) :
                       Table(e)'[req'[r].wrote.id][f] = Submitted(req[r].data, f)
             /\ (Steps(r) /\ req'[r].pc = "done" /\ req'[r].method = "GET"
                   /\ req'[r].instance # None)
                  => req'[r].body = Table(e)'[req'[r].instance]]_vars

\* The rows of table t other than the one stored under id.
OtherRows(t, id) == [k \in DOMAIN t \ {id} |-> t[k]]

\* The tables of the entity types other than e.
OtherTables(e) ==
    CASE e = "Company" -> <<units, employees>>
      [] e = "Unit" -> <<companies, employees>>
      [] e = "Employee" -> <<companies, units>>
      [] OTHER -> <<companies, units, employees>>

\* C16: a step of a request changes at most one stored row.  A list request
\* and a read of the edit form change nothing; so does every step of a
\* submit but a successful save, which writes one row of its entity type
\* and leaves the other rows of that type and the tables of the other two
\* types as they were.
C16_OneRowPerRequest ==
    [][\A r \in Clients :
         LET e == req[r].entity
             id == req'[r].wrote.id
         IN  Steps(r) =>
               IF Saves(r) /\ req'[r].status = 302
               THEN /\ id \in DOMAIN Table(e)'
                    /\ OtherRows(Table(e)', id) = OtherRows(Table(e), id)
                    /\ UNCHANGED OtherTables(e)
               ELSE UNCHANGED <<companies, units, employees>>]_vars

\* C16's case: a save wrote one of two stored rows of its type while rows of
\* the other two types are stored.
C16_Witness ==
    \E r \in Clients :
        /\ req[r].pc = "done" /\ req[r].status = 302 /\ req[r].wrote # NoWrite
        /\ Cardinality(DOMAIN Table(req[r].entity)) = 2
        /\ companies # Empty /\ units # Empty /\ employees # Empty
====
